---------------------------- MODULE Spec2Model ----------------------------
(***************************************************************************)
(* Model of src/Ouroboros.Providers/Providers/Tapo/refactor.py: a script   *)
(* that reads two C# files, applies five re.sub rules that turn the "&"    *)
(* before the first query parameter of a Tapo URL into "?", writes each    *)
(* file back and prints a confirmation.                                    *)
(*                                                                         *)
(* Text is a sequence of one-character strings.  The five patterns all     *)
(* have the shape  (LEAD \d+ PATH [^"]+ ?) & (PARAM)  and are matched the  *)
(* way Python's backtracking engine matches them: leftmost start, greedy   *)
(* \d+ and greedy [^"]+, non-overlapping matches found left to right.      *)
(***************************************************************************)
EXTENDS Naturals, Sequences, FiniteSets

VARIABLES fs,       \* the file system: content of each target file, as stored
          fs0,      \* the content of each target file before the run
          linesep,  \* os.linesep of the platform the script runs on
          file,     \* index into files of the loop's current file
          pc,       \* the statement the run is at
          content,  \* the script's variable content
          error,    \* "none", or the unhandled exception that ended the run
          stdout,   \* the lines printed so far
          iolog,    \* the file operations that completed, in order
          pending   \* rules not yet applied (any-order application only)

vars == <<fs, fs0, linesep, file, pc, content, error, stdout, iolog, pending>>

---------------------------------------------------------------------------
(* Bounds *)

\* Texts of the rule chain's input are concatenations of at most MaxParts parts.
MaxParts == 3

\* File contents of a whole run are at most MaxLines lines.
MaxLines == 1

---------------------------------------------------------------------------
(* Characters and literals of the script *)

Amp == "&"
Question == "?"
Quote == "\""
CR == "\r"
LF == "\n"

Digits == {"0", "1", "2", "3", "4", "5", "6", "7", "8", "9"}

SetBrightness == <<"/", "s", "e", "t", "-", "b", "r", "i", "g", "h", "t", "n", "e", "s", "s">>
Level == <<"l", "e", "v", "e", "l", "=">>
SetHueSaturation == <<"/", "s", "e", "t", "-", "h", "u", "e", "-", "s", "a", "t", "u", "r", "a", "t", "i", "o", "n">>
Hue == <<"h", "u", "e", "=">>
SetColorTemperature == <<"/", "s", "e", "t", "-", "c", "o", "l", "o", "r", "-", "t", "e", "m", "p", "e", "r", "a", "t", "u", "r", "e">>
ColorTemperature == <<"c", "o", "l", "o", "r", "_", "t", "e", "m", "p", "e", "r", "a", "t", "u", "r", "e", "=">>
SetLightingEffect == <<"/", "s", "e", "t", "-", "l", "i", "g", "h", "t", "i", "n", "g", "-", "e", "f", "f", "e", "c", "t">>
LightingEffect == <<"l", "i", "g", "h", "t", "i", "n", "g", "_", "e", "f", "f", "e", "c", "t", "=">>
Get == <<"/", "g", "e", "t", "-">>
StartDate == <<"s", "t", "a", "r", "t", "_", "d", "a", "t", "e", "=">>

\* files = ['TapoLightStripOperations.cs', 'TapoPlugOperations.cs']
files == <<"TapoLightStripOperations.cs", "TapoPlugOperations.cs">>

Confirmation == "Fixed URL constructions"

---------------------------------------------------------------------------
(* The five patterns.  lead, \d+, path and (when wild) [^"]+ form group 1; *)
(* param is group 2; a literal "&" stands between the groups.              *)

\* rule 1 without the 9: r'(l\d+/set-brightness)&(level=)'
Pattern1AnyDigits == [lead |-> <<"l">>, path |-> SetBrightness, wild |-> FALSE, param |-> Level]

\* r'(l9\d+/set-brightness)&(level=)'
Pattern1 == [lead |-> <<"l", "9">>, path |-> SetBrightness, wild |-> FALSE, param |-> Level]

\* r'(l9\d+/set-hue-saturation)&(hue=)'
Pattern2 == [lead |-> <<"l", "9">>, path |-> SetHueSaturation, wild |-> FALSE, param |-> Hue]

\* r'(l9\d+/set-color-temperature)&(color_temperature=)'
Pattern3 == [lead |-> <<"l", "9">>, path |-> SetColorTemperature, wild |-> FALSE, param |-> ColorTemperature]

\* r'(l9\d+/set-lighting-effect)&(lighting_effect=)'
Pattern4 == [lead |-> <<"l", "9">>, path |-> SetLightingEffect, wild |-> FALSE, param |-> LightingEffect]

\* r'(p\d+/get-[^"]+)&(start_date=)'
Pattern5 == [lead |-> <<"p">>, path |-> Get, wild |-> TRUE, param |-> StartDate]

Pattern(r) ==
  CASE r = 1 -> Pattern1
    [] r = 2 -> Pattern2
    [] r = 3 -> Pattern3
    [] r = 4 -> Pattern4
    [] r = 5 -> Pattern5

RuleIds == 1..5

---------------------------------------------------------------------------
(* The regular-expression engine, for patterns of this shape *)

Max(S) == CHOOSE x \in S : \A y \in S : y <= x

Min(S) == CHOOSE x \in S : \A y \in S : x <= y

\* \d  (the model's alphabet holds ASCII digits only)
IsDigit(ch) == ch \in Digits

\* . in place of [^"]
InWildAnyChar(ch) == TRUE

\* [^"&] in place of [^"]
InWildNoAmp(ch) == ch # Quote /\ ch # Amp

\* [^"]
InWild(ch) == ch # Quote

\* the literal lit stands in s at index i
LitAt(s, i, lit) ==
  /\ i >= 1
  /\ i + Len(lit) - 1 <= Len(s)
  /\ \A n \in 1..Len(lit) : s[i + n - 1] = lit[n]

\* the first index at or after i that holds no digit
DigitRunEnd(s, i) ==
  Min({j \in i..Len(s) : ~IsDigit(s[j])} \cup {Len(s) + 1})

\* the first index at or after i that [^"] does not accept
WildRunEnd(s, i) ==
  Min({j \in i..Len(s) : ~InWild(s[j])} \cup {Len(s) + 1})

\* "&" followed by group 2 stands at index j
SepParamAt(p, s, j) ==
  /\ j >= 1
  /\ j <= Len(s)
  /\ s[j] = Amp
  /\ LitAt(s, j + 1, p.param)

\* Group 1's path ended before index k: the index of the "&" the match
\* takes, 0 when the rest of the pattern does not match.  The greedy [^"]+
\* takes the longest run that still lets &(param) follow.
SepAfterPath(p, s, k) ==
  IF p.wild
  THEN LET stops == {j \in (k + 1)..WildRunEnd(s, k) : SepParamAt(p, s, j)}
       IN  IF stops = {} THEN 0 ELSE Max(stops)
  ELSE IF SepParamAt(p, s, k) THEN k ELSE 0

\* The match of p that starts at index i: the index of its "&", 0 when p
\* does not match at i.  The greedy \d+ takes the longest digit run that
\* still lets the rest match.
MatchAt(p, s, i) ==
  IF ~LitAt(s, i, p.lead)
  THEN 0
  ELSE LET d0 == i + Len(p.lead)
           ends == {d \in (d0 + 1)..DigitRunEnd(s, d0) :
                      /\ LitAt(s, d, p.path)
                      /\ SepAfterPath(p, s, d + Len(p.path)) # 0}
       IN  IF ends = {} THEN 0
           ELSE SepAfterPath(p, s, Max(ends) + Len(p.path))

\* the template with group 2 left out: r'\1?'
ReplacementWithoutGroup2(g1, g2) == g1 \o <<Question>>

\* the replacement template r'\1?\2'
Replacement(g1, g2) == g1 \o <<Question>> \o g2

\* the start indices at or after pos where p matches
MatchStarts(p, s, pos) == {i \in pos..Len(s) : MatchAt(p, s, i) # 0}

RECURSIVE SubFrom(_, _, _)
\* re.sub from index pos on: the text up to the leftmost match is copied,
\* the match is replaced by the expanded template, and the scan goes on
\* after the match
SubFrom(p, s, pos) ==
  LET starts == MatchStarts(p, s, pos)
  IN  IF starts = {}
      THEN SubSeq(s, pos, Len(s))
      ELSE LET i == Min(starts)
               j == MatchAt(p, s, i)
           IN  SubSeq(s, pos, i - 1)
                 \o Replacement(SubSeq(s, i, j - 1),
                                SubSeq(s, j + 1, j + Len(p.param)))
                 \o SubFrom(p, s, j + Len(p.param) + 1)

\* re.sub(pattern, r'\1?\2', s)
Sub(p, s) == SubFrom(p, s, 1)

\* the five re.sub calls of the loop body, chained through content
Refactor(s) == Sub(Pattern5, Sub(Pattern4, Sub(Pattern3, Sub(Pattern2, Sub(Pattern1, s)))))

---------------------------------------------------------------------------
(* Text-mode file I/O: open(file, 'r') and open(file, 'w') use universal   *)
(* newlines, no newline argument being given.                              *)

\* what the character at index i of the stored text b is read as
ReadChar(b, i) ==
  IF b[i] = CR THEN <<LF>>
  ELSE IF b[i] = LF /\ i > 1 /\ b[i - 1] = CR THEN <<>>
  ELSE <<b[i]>>

RECURSIVE ReadRange(_, _, _)
ReadRange(b, lo, hi) ==
  IF lo > hi THEN <<>>
  ELSE IF lo = hi THEN ReadChar(b, lo)
  ELSE LET mid == (lo + hi) \div 2
       IN  ReadRange(b, lo, mid) \o ReadRange(b, mid + 1, hi)

\* f.read(): "\r\n" and a lone "\r" are read as "\n"
ReadText(b) == ReadRange(b, 1, Len(b))

RECURSIVE WriteRange(_, _, _, _)
WriteRange(t, sep, lo, hi) ==
  IF lo > hi THEN <<>>
  ELSE IF lo = hi THEN (IF t[lo] = LF THEN sep ELSE <<t[lo]>>)
  ELSE LET mid == (lo + hi) \div 2
       IN  WriteRange(t, sep, lo, mid) \o WriteRange(t, sep, mid + 1, hi)

\* f.write(content): each "\n" is written as os.linesep
WriteText(t, sep) == WriteRange(t, sep, 1, Len(t))

\* os.linesep: POSIX or Windows
LineSeps == {<<LF>>, <<CR, LF>>}

---------------------------------------------------------------------------
(* Inputs *)

RECURSIVE Concat(_)
Concat(ss) == IF ss = <<>> THEN <<>> ELSE Head(ss) \o Concat(Tail(ss))

SeqsUpTo(S, n) == UNION {[1..m -> S] : m \in 0..n}

\* Pieces of URL-building string literals, whole and broken
Parts ==
  { <<"l", "9", "1", "2", "3">> \o SetBrightness,
    <<"l", "8", "1", "2", "3">> \o SetBrightness,
    <<"l", "9">> \o SetBrightness,
    <<"l", "9", "2">> \o SetHueSaturation,
    <<Amp>> \o Level,
    <<Amp>> \o Hue,
    <<"p", "5">> \o Get,
    <<Amp>> \o StartDate,
    <<"p", "5">> \o Get \o <<"x", Amp>> \o StartDate,
    <<"l", "9", "3">> \o SetColorTemperature \o <<Amp>> \o ColorTemperature,
    <<"l", "9", "4">> \o SetLightingEffect \o <<Amp>> \o LightingEffect,
    <<Quote>>,
    <<"x">> }

Texts == {Concat(ps) : ps \in SeqsUpTo(Parts, MaxParts)}

\* Lines of a target file and their terminators
Lines ==
  { <<"x">>,
    <<Quote, "l", "9", "0", "0", "1">> \o SetBrightness \o <<Amp>> \o Level \o <<"8", "0", Quote>>,
    <<Quote, "p", "5">> \o Get \o <<"r", Amp>> \o StartDate \o <<"1", Quote>> }

Terminators == {<<LF>>, <<CR, LF>>}

FileTexts ==
  {Concat(ls) : ls \in SeqsUpTo({l \o t : l \in Lines, t \in Terminators}, MaxLines)}

Files == 1..Len(files)

---------------------------------------------------------------------------
(* The run of the script *)

Init ==
  /\ fs0 \in [Files -> FileTexts]
  /\ fs = fs0
  /\ linesep \in LineSeps
  /\ file = 1
  /\ pc = "read"
  /\ content = <<>>
  /\ error = "none"
  /\ stdout = <<>>
  /\ iolog = <<>>
  /\ pending = {}

Running == error = "none" /\ file \in Files

\* with open(file, 'r') as f: content = f.read()
Read ==
  /\ Running /\ pc = "read"
  /\ content' = ReadText(fs[file])
  /\ iolog' = Append(iolog, <<"read", file>>)
  /\ pc' = "rule1"
  /\ UNCHANGED <<fs, fs0, linesep, file, error, stdout, pending>>

\* the read failure caught and the loop body carried on with an empty buffer
ReadFailsSwallowed ==
  /\ Running /\ pc = "read"
  /\ content' = <<>>
  /\ pc' = "rule1"
  /\ UNCHANGED <<fs, fs0, linesep, file, error, stdout, iolog, pending>>

\* open(file, 'r') or f.read() raises: the exception is not handled
ReadFails ==
  /\ Running /\ pc = "read"
  /\ error' = "IOError"
  /\ UNCHANGED <<fs, fs0, linesep, file, pc, content, stdout, iolog, pending>>

\* content = re.sub(r'(l9\d+/set-brightness)&(level=)', r'\1?\2', content)
Rule1 ==
  /\ Running /\ pc = "rule1"
  /\ content' = Sub(Pattern1, content)
  /\ pc' = "rule2"
  /\ UNCHANGED <<fs, fs0, linesep, file, error, stdout, iolog, pending>>

\* content = re.sub(r'(l9\d+/set-hue-saturation)&(hue=)', r'\1?\2', content)
Rule2 ==
  /\ Running /\ pc = "rule2"
  /\ content' = Sub(Pattern2, content)
  /\ pc' = "rule3"
  /\ UNCHANGED <<fs, fs0, linesep, file, error, stdout, iolog, pending>>

\* content = re.sub(r'(l9\d+/set-color-temperature)&(color_temperature=)', ...)
Rule3 ==
  /\ Running /\ pc = "rule3"
  /\ content' = Sub(Pattern3, content)
  /\ pc' = "rule4"
  /\ UNCHANGED <<fs, fs0, linesep, file, error, stdout, iolog, pending>>

\* content = re.sub(r'(l9\d+/set-lighting-effect)&(lighting_effect=)', ...)
Rule4 ==
  /\ Running /\ pc = "rule4"
  /\ content' = Sub(Pattern4, content)
  /\ pc' = "rule5"
  /\ UNCHANGED <<fs, fs0, linesep, file, error, stdout, iolog, pending>>

\* rule 5 applied to the text as read instead of the buffer
Rule5NotChained ==
  /\ Running /\ pc = "rule5"
  /\ content' = Sub(Pattern5, ReadText(fs0[file]))
  /\ pc' = "open_w"
  /\ UNCHANGED <<fs, fs0, linesep, file, error, stdout, iolog, pending>>

\* content = re.sub(r'(p\d+/get-[^"]+)&(start_date=)', r'\1?\2', content)
Rule5 ==
  /\ Running /\ pc = "rule5"
  /\ content' = Sub(Pattern5, content)
  /\ pc' = "open_w"
  /\ UNCHANGED <<fs, fs0, linesep, file, error, stdout, iolog, pending>>

\* with open(file, 'w') as f: the file is truncated
OpenWrite ==
  /\ Running /\ pc = "open_w"
  /\ fs' = [fs EXCEPT ![file] = <<>>]
  /\ iolog' = Append(iolog, <<"open_w", file>>)
  /\ pc' = "write"
  /\ UNCHANGED <<fs0, linesep, file, content, error, stdout, pending>>

\* open(file, 'w') raises (the path is not writable): the file is untouched
OpenWriteFails ==
  /\ Running /\ pc = "open_w"
  /\ error' = "IOError"
  /\ UNCHANGED <<fs, fs0, linesep, file, pc, content, stdout, iolog, pending>>

\* the print indented into the loop body: a line per file
WriteAndPrint ==
  /\ Running /\ pc = "write"
  /\ fs' = [fs EXCEPT ![file] = WriteText(content, linesep)]
  /\ iolog' = Append(iolog, <<"write", file>>)
  /\ stdout' = Append(stdout, Confirmation)
  /\ file' = file + 1
  /\ pc' = IF file = Len(files) THEN "print" ELSE "read"
  /\ UNCHANGED <<fs0, linesep, content, error, pending>>

\* f.write(content), the file is closed, and the loop goes to the next file
Write ==
  /\ Running /\ pc = "write"
  /\ fs' = [fs EXCEPT ![file] = WriteText(content, linesep)]
  /\ iolog' = Append(iolog, <<"write", file>>)
  /\ file' = file + 1
  /\ pc' = IF file = Len(files) THEN "print" ELSE "read"
  /\ UNCHANGED <<fs0, linesep, content, error, stdout, pending>>

\* f.write(content) or the close raises: nothing or everything reached the file
WriteFails ==
  /\ Running /\ pc = "write"
  /\ \E data \in {<<>>, WriteText(content, linesep)} :
       fs' = [fs EXCEPT ![file] = data]
  /\ error' = "IOError"
  /\ UNCHANGED <<fs0, linesep, file, pc, content, stdout, iolog, pending>>

\* print("Fixed URL constructions")
PrintDone ==
  /\ error = "none" /\ pc = "print"
  /\ stdout' = Append(stdout, Confirmation)
  /\ pc' = "done"
  /\ UNCHANGED <<fs, fs0, linesep, file, content, error, iolog, pending>>

Next ==
  \/ Read
  \/ ReadFails
  \/ Rule1
  \/ Rule2
  \/ Rule3
  \/ Rule4
  \/ Rule5
  \/ OpenWrite
  \/ OpenWriteFails
  \/ Write
  \/ WriteFails
  \/ PrintDone

Spec == Init /\ [][Next]_vars

---------------------------------------------------------------------------
(* The rule chain on one buffer: the run from the point where the first    *)
(* file has been read, for a wide set of texts.                            *)

InitRules ==
  /\ \E t \in Texts : fs0 = [f \in Files |-> IF f = 1 THEN t ELSE <<>>]
  /\ fs = fs0
  /\ linesep = <<LF>>
  /\ file = 1
  /\ pc = "rule1"
  /\ content = ReadText(fs0[1])
  /\ error = "none"
  /\ stdout = <<>>
  /\ iolog = <<<<"read", 1>>>>
  /\ pending = {}

NextRules ==
  \/ Rule1
  \/ Rule2
  \/ Rule3
  \/ Rule4
  \/ Rule5

SpecRules == InitRules /\ [][NextRules]_vars

\* the buffer as f.read() returned it for the current file
src == ReadText(fs0[file])

---------------------------------------------------------------------------
(* The five rules applied to one buffer in any order: what the chain would *)
(* do were its re.sub lines permuted.                                      *)

\* Whole and broken URL literals for the any-order chain
PermParts ==
  { <<"l", "9", "1">> \o SetBrightness \o <<Amp>> \o Level,
    <<"l", "9", "2">> \o SetHueSaturation \o <<Amp>> \o Hue,
    <<"l", "9", "3">> \o SetColorTemperature \o <<Amp>> \o ColorTemperature,
    <<"l", "9", "4">> \o SetLightingEffect \o <<Amp>> \o LightingEffect,
    <<"p", "5">> \o Get,
    <<Amp>> \o StartDate,
    <<Quote>> }

PermTexts == {Concat(ps) : ps \in SeqsUpTo(PermParts, MaxParts)}

InitPerm ==
  /\ \E t \in PermTexts : fs0 = [f \in Files |-> IF f = 1 THEN t ELSE <<>>]
  /\ fs = fs0
  /\ linesep = <<LF>>
  /\ file = 1
  /\ pc = "rules"
  /\ content = ReadText(fs0[1])
  /\ error = "none"
  /\ stdout = <<>>
  /\ iolog = <<<<"read", 1>>>>
  /\ pending = RuleIds

\* one of the re.sub lines not yet run: content = re.sub(pattern r, ...)
ApplyRule(r) ==
  /\ pc = "rules"
  /\ r \in pending
  /\ content' = Sub(Pattern(r), content)
  /\ pending' = pending \ {r}
  /\ UNCHANGED <<fs, fs0, linesep, file, pc, error, stdout, iolog>>

NextPerm == \E r \in RuleIds : ApplyRule(r)

SpecPerm == InitPerm /\ [][NextPerm]_vars

---------------------------------------------------------------------------
(* What the rules are said to match, stated over positions of the text     *)

\* Text of the shape of p's group 1 occupies s[i..j-1]: the lead, one or
\* more digits, the path and, for rule 5, one or more characters that are
\* not double quotes.
GroupOneIs(p, s, i, j) ==
  /\ LitAt(s, i, p.lead)
  /\ \E d \in (i + Len(p.lead) + 1)..j :
       /\ \A n \in (i + Len(p.lead))..(d - 1) : s[n] \in Digits
       /\ LitAt(s, d, p.path)
       /\ IF p.wild
          THEN /\ d + Len(p.path) < j
               /\ \A n \in (d + Len(p.path))..(j - 1) : s[n] # Quote
          ELSE d + Len(p.path) = j

\* an occurrence <<i, j>> of rule p in s: the path fragment from i on,
\* immediately followed by "&" at j and the parameter name
Occurrences(p, s) ==
  {o \in {i \in 1..Len(s) : LitAt(s, i, p.lead)} \X {j \in 1..Len(s) : SepParamAt(p, s, j)} :
     GroupOneIs(p, s, o[1], o[2])}

\* the last index of an occurrence
OccEnd(p, o) == o[2] + Len(p.param)

\* two occurrences share no character
Apart(p, o1, o2) == OccEnd(p, o1) < o2[1] \/ OccEnd(p, o2) < o1[1]

\* the chain has run on the buffer
Chained == pc = "open_w"

---------------------------------------------------------------------------
(* C1 *)

\* C1: idempotence.  Applying the five rules to the output of the chain
\* gives that output again.
C1_Idempotent == Chained => Refactor(content) = content

---------------------------------------------------------------------------
(* C2 *)

\* C2: multi-occurrence.  For each rule, an occurrence of the rule in the
\* input that stands alone, or that stands apart from another occurrence of
\* the same rule, has its "&" replaced by "?" in the output of the chain.
C2_EveryOccurrenceRewritten ==
  Chained =>
    LET s == src
    IN  \A r \in RuleIds :
          LET occ == Occurrences(Pattern(r), s)
          IN  \A o \in occ :
                (occ = {o} \/ \E o2 \in occ : Apart(Pattern(r), o, o2))
                  => content[o[2]] = Question

---------------------------------------------------------------------------
(* C3 *)

\* C3: only separators change.  The buffer keeps the length of the input,
\* and wherever it differs from the input the input holds "&" and the
\* buffer "?".
C3_OnlySeparatorsChange ==
  Chained =>
    LET s == src
    IN  /\ Len(content) = Len(s)
        /\ \A n \in 1..Len(s) :
             content[n] # s[n] => s[n] = Amp /\ content[n] = Question

\* the chain has run and rewrote at least two separators
C3_Witness ==
  /\ Chained
  /\ LET s == src
     IN  Cardinality({n \in 1..Len(s) : content[n] # s[n]}) >= 2

---------------------------------------------------------------------------
(* C5 *)

\* the path of rule p ends right before index j and is directly preceded
\* by "l9" and at least one further decimal digit
PrecededByLightPath(p, s, j) ==
  LET d == j - Len(p.path)
  IN  /\ LitAt(s, d, p.path)
      /\ \E i \in 1..(d - 3) :
           /\ s[i] = "l"
           /\ s[i + 1] = "9"
           /\ \A n \in (i + 2)..(d - 1) : s[n] \in Digits

\* C5: scope of rules 1-4.  An "&" directly followed by the parameter name
\* of one of the rules 1-4 is "?" after the chain if and only if the rule's
\* /set-... path directly precedes it and "l9" plus at least one further
\* digit directly precedes the path.
C5_ScopePrecision ==
  Chained =>
    LET s == src
    IN  \A r \in 1..4 : \A j \in 1..Len(s) :
          SepParamAt(Pattern(r), s, j) =>
            (content[j] = Question <=> PrecededByLightPath(Pattern(r), s, j))

\* the chain has run on a text that holds both an "&level=" that rule 1
\* rewrote and one that it left alone
C5_Witness ==
  /\ Chained
  /\ LET s == src
     IN  /\ \E j \in 1..Len(s) : SepParamAt(Pattern1, s, j) /\ content[j] = Question
         /\ \E j \in 1..Len(s) : SepParamAt(Pattern1, s, j) /\ content[j] = Amp

---------------------------------------------------------------------------
(* C8 *)

\* the chain without rule 1, and the chain without rule 5
WithoutRule1(s) == Sub(Pattern5, Sub(Pattern4, Sub(Pattern3, Sub(Pattern2, s))))
WithoutRule5(s) == Sub(Pattern4, Sub(Pattern3, Sub(Pattern2, Sub(Pattern1, s))))

\* an occurrence of p and an occurrence of q share no character
ApartOf(p, o, q, o2) == OccEnd(p, o) < o2[1] \/ OccEnd(q, o2) < o[1]

---------------------------------------------------------------------------
(* C9 *)

\* C9: rule 5 stays inside one string literal.  Every "&" that the rule-5
\* step turns into "?" is preceded by p<digits>/get- and, between that and
\* the "&", by one or more characters none of which is a double quote.
C9_Rule5InsideLiteral ==
  [][pc = "rule5" =>
       \A j \in 1..Len(content) :
         (j <= Len(content') /\ content[j] = Amp /\ content'[j] = Question)
           => \E i \in 1..j : GroupOneIs(Pattern5, content, i, j)]_vars

\* rule 5 has rewritten an "&" that stands after a double quote
C9_Witness ==
  /\ Chained
  /\ LET s == src
     IN  \E j \in 1..Len(s) :
           /\ SepParamAt(Pattern5, s, j)
           /\ content[j] = Question
           /\ \E q \in 1..j : s[q] = Quote

---------------------------------------------------------------------------
(* C10 *)

\* C10: rule-order independence.  When all five rules have been applied,
\* in whatever order, the buffer is what the chain in the script's order
\* makes of the input.
C10_OrderIndependent ==
  (pc = "rules" /\ pending = {}) => content = Refactor(src)

\* all five rules have been applied, in some order, to a text in which a
\* rule-5 occurrence encloses an occurrence of one of the rules 1-4, and
\* both were rewritten
C10_Witness ==
  /\ pc = "rules" /\ pending = {}
  /\ LET s == src
     IN  \E r \in 1..4 :
           \E o \in Occurrences(Pattern(r), s) : \E o5 \in Occurrences(Pattern5, s) :
             /\ o5[1] < o[1] /\ o[2] < o5[2]
             /\ content[o[2]] = Question
             /\ content[o5[2]] = Question

---------------------------------------------------------------------------
(* Whole runs *)

\* the operation op on file f has completed
Did(op, f) == \E n \in 1..Len(iolog) : iolog[n] = <<op, f>>

\* the text holds one of the five path fragments
ContainsFragment(s) ==
  \E r \in RuleIds :
    \E i \in {i \in 1..Len(s) : LitAt(s, i, Pattern(r).lead)} :
      \E j \in i..(Len(s) + 1) : GroupOneIs(Pattern(r), s, i, j)

\* what a completed pass leaves in file f
Rewritten(f) == WriteText(Refactor(ReadText(fs0[f])), linesep)

\* the order in which the script does its file operations
IoOrder ==
  << <<"read", 1>>, <<"open_w", 1>>, <<"write", 1>>,
     <<"read", 2>>, <<"open_w", 2>>, <<"write", 2>> >>

---------------------------------------------------------------------------
(* C4 *)

\* C4: no-match no-op.  After a completed run, a file whose content held
\* none of the five path fragments has been read, opened for writing and
\* written, and its content is what it was before the run.
C4_NoMatchNoOp ==
  pc = "done" =>
    \A f \in Files :
      ~ContainsFragment(fs0[f]) =>
        /\ Did("read", f) /\ Did("open_w", f) /\ Did("write", f)
        /\ fs[f] = fs0[f]

---------------------------------------------------------------------------
(* C6 *)

\* C6: no rollback, fail-fast.  The file operations happen in list order;
\* the second file is untouched while the first is processed; once the
\* loop is at the second file the first holds its rewritten content, also
\* when the run has failed there; a file whose read failed holds its
\* original content; after a failure nothing more happens.
C6_NoRollbackFailFast ==
  /\ Len(iolog) <= Len(IoOrder)
  /\ iolog = SubSeq(IoOrder, 1, Len(iolog))
  /\ file = 1 => fs[2] = fs0[2]
  /\ file >= 2 => fs[1] = Rewritten(1)
  /\ (error # "none" /\ pc = "read") => fs[file] = fs0[file]
  /\ error # "none" => ~ENABLED Next

\* the write of the second file has failed, and the first file keeps a
\* content that differs from its original one
C6_Witness ==
  /\ error = "IOError"
  /\ file = 2
  /\ pc = "write"
  /\ fs[1] # fs0[1]
  /\ fs[1] = Rewritten(1)

---------------------------------------------------------------------------
(* C7 *)

\* C7: confirmation ordering.  Standard output holds nothing or the one
\* confirmation line; it holds the line only when both files have been
\* written and nothing failed; after a failure nothing is printed.
C7_ConfirmationLast ==
  /\ stdout \in {<<>>, <<Confirmation>>}
  /\ stdout # <<>> =>
       /\ \A f \in Files : Did("write", f)
       /\ error = "none"
  /\ error # "none" => (stdout = <<>> /\ ~ENABLED PrintDone)

\* the run has completed and printed the confirmation
C7_Witness ==
  /\ pc = "done"
  /\ stdout = <<Confirmation>>
  /\ \A f \in Files : Did("write", f)

=============================================================================
